---- MODULE Spec2Model ----
(***************************************************************************)
(* Model of webcrawlerapi/client.py: the WebCrawlerAPI client and its two  *)
(* blocking flows, crawl and scrape.  A blocking call is a process whose   *)
(* position is pc; the remote service is the environment: every response   *)
(* (success or failure, and the JSON it carries) is chosen freely.         *)
(*                                                                         *)
(* Encodings.  A Python value that may be None is a sequence of length at  *)
(* most one: <<>> is None, <<v>> is v.  An unbound local variable is <<>>  *)
(* as well (job, result).  A JSON value is a record [t, v] tagged with its *)
(* type.  A number of seconds is a fraction <<num, den>>, so that the true *)
(* division ms / 1000 of Python is kept exact.                             *)
(***************************************************************************)
EXTENDS Integers, Sequences, FiniteSets, TLC

VARIABLES
    op,         \* the blocking call in progress: "none", "crawl", "scrape"
    pc,         \* its position: "idle", "start", "loop", "fetch", "sleep", "done"
    args,       \* the arguments of the call
    job_id,     \* local job_id / scrape_id, <<>> before the start call returns
    polls,      \* local poll counter
    job,        \* local job (crawl) or result (scrape): <<>> while unbound
    delay,      \* local delay_seconds, <<>> while unbound
    outcome,    \* how the call ended: [kind |-> "none" | "return" | "raise", ...]
    trace,      \* history: every HTTP request issued and every sleep, in order
    fetched,    \* history: the JSON body of the latest successful fetch, <<>> before it
    client,     \* the attributes __init__ sets: api_key, base_url, version, headers
    server,     \* the status the service holds for the job cancel_job names
    peer,       \* a second blocking call on the same client: its own pc, max_polls, polls
    calls       \* history: how many calls on this client have returned or raised

\* the frame of the blocking call and its history
frame == <<op, pc, args, job_id, polls, job, delay, outcome, trace, fetched>>

\* what outlives a call or lies outside it
world == <<client, server, peer, calls>>

vars == <<op, pc, args, job_id, polls, job, delay, outcome, trace, fetched,
          client, server, peer, calls>>

----------------------------------------------------------------------------
(* Bounds of the model *)

\* largest max_polls a caller passes in the model
MaxPolls == 3

\* how many calls on one client return before the model stops entering new ones
MaxCalls == 1

\* largest max_polls of the calls that share one client
MaxSharedPolls == 2

\* the max_polls values a caller passes: negative, zero and positive
PollArgs == (-1)..MaxPolls

----------------------------------------------------------------------------
(* Program constants *)

DEFAULT_POLL_DELAY_SECONDS == 5

\* the divisor of recommended_pull_delay_ms / 1000
MsPerSecond == 1000

----------------------------------------------------------------------------
(* Values *)

None == <<>>
Some(v) == <<v>>

\* Python truthiness of an Optional[str]: None and "" are falsy
TruthyStr(o) == o # None /\ o[1] # ""

\* Python truthiness of an Optional[int]: None and 0 are falsy
TruthyInt(o) == o # None /\ o[1] # 0

JStr(s) == [t |-> "str", v |-> s]
JInt(n) == [t |-> "int", v |-> n]
JBool(b) == [t |-> "bool", v |-> b]
JObj(o) == [t |-> "object", v |-> o]

\* seconds as fractions
Seconds(n) == <<n, 1>>
TrueDiv(a, b) == <<a, b>>
SameSeconds(x, y) == x[1] * y[2] = y[1] * x[2]

----------------------------------------------------------------------------
(* The arguments callers pass *)

OptStrings == {None, Some(""), Some("x")}

CrawlArgs ==
    [url : {"u"}, scrape_type : {"html", "markdown"}, items_limit : {10},
     webhook_url : OptStrings, allow_subdomains : {FALSE},
     whitelist_regexp : {None, Some("x")}, blacklist_regexp : {None, Some("")},
     max_polls : PollArgs]

ScrapeArgs ==
    [crawler_id : {"c"}, input_data : {"in"}, webhook_url : OptStrings,
     max_polls : PollArgs]

NoArgs == [max_polls |-> 0]

----------------------------------------------------------------------------
(* What the service answers *)

JobIds == {"j1", "j2"}

\* recommended_pull_delay_ms as the service sends it: absent, zero, or a hint
DelayHints == {None, Some(0), Some(1500)}

JobStatuses == {"running", "done", "error", "cancelled"}

\* the JSON of GET /job/{id}, cut down to the fields the polling loop reads
JobJsons == [status : JobStatuses, recommended_pull_delay_ms : DelayHints]

ScrapeStatuses == {"pending", "done", "error", "cancelled"}

\* the JSON of GET /scrape/{id}; None marks a key the body does not carry
ScrapeJsons ==
    [status : ScrapeStatuses, structured_data : {None, Some("d1"), Some("d2")},
     error : {None, Some("boom")}, recommended_pull_delay_ms : DelayHints]

\* the statuses the service holds for a job
ServerStatuses == {"pending", "running", "done", "error", "cancelled"}

\* the JSON of PUT /job/{id}/cancel
CancelJsons == {[message |-> "Job cancelled"]}

----------------------------------------------------------------------------
(* Response models (webcrawlerapi/models.py) *)

\* Job(data): an optional field the body does not carry is None
Job(data) ==
    [status |-> data.status,
     recommended_pull_delay_ms |-> data.recommended_pull_delay_ms]

TerminalStatuses == {"done", "error", "cancelled"}

\* Job.is_terminal
is_terminal(j) == j.status \in TerminalStatuses

\* ScrapeResult(data): status and structured_data are always attributes
\* (structured_data is None when the body has none); error and
\* recommended_pull_delay_ms are attributes only when the body carries them
ScrapeResult(data) ==
    [a \in {"status", "structured_data"}
           \cup {k \in {"error", "recommended_pull_delay_ms"} : data[k] # None}
       |-> IF a = "status" THEN data.status
           ELSE IF a = "structured_data" THEN data.structured_data
           ELSE data[a][1]]

hasattr(obj, name) == name \in DOMAIN obj

----------------------------------------------------------------------------
(* Outcomes and history events *)

NoOutcome == [kind |-> "none"]
Return(v) == [kind |-> "return", value |-> v]
Raise(exc, msg) == [kind |-> "raise", exc |-> exc, msg |-> msg]

\* raise_for_status() on a non-2xx response; nothing in the client catches it
HTTPError == Raise("HTTPError", <<>>)

\* reading the local variable job before any assignment to it
UnboundLocalError == Raise("UnboundLocalError", <<"job">>)

EvPost(path, body, ok) == [kind |-> "POST", path |-> path, body |-> body, ok |-> ok]
EvGet(path, id, ok, status) ==
    [kind |-> "GET", path |-> path, id |-> id, ok |-> ok, status |-> status]
EvSleep(d) == [kind |-> "sleep", seconds |-> d]
EvPut(path, id, ok) == [kind |-> "PUT", path |-> path, id |-> id, ok |-> ok]

IsRequest(e) == e.kind \in {"POST", "GET"}
IsFetch(e) == e.kind = "GET"
IsSleep(e) == e.kind = "sleep"

Count(seq, P(_)) == Cardinality({i \in DOMAIN seq : P(seq[i])})

----------------------------------------------------------------------------
(* crawl_async and scrape_async: the request bodies *)

\* a crawl_async that tests "is not None", so that "" is sent as given
CrawlPayload_SendsEmpty(a) ==
    [k \in {"url", "scrape_type", "items_limit", "allow_subdomains"}
           \cup (IF a.webhook_url # None THEN {"webhook_url"} ELSE {})
           \cup (IF a.whitelist_regexp # None THEN {"whitelist_regexp"} ELSE {})
           \cup (IF a.blacklist_regexp # None THEN {"blacklist_regexp"} ELSE {})
       |-> CASE k = "url" -> JStr(a.url)
             [] k = "scrape_type" -> JStr(a.scrape_type)
             [] k = "items_limit" -> JInt(a.items_limit)
             [] k = "allow_subdomains" -> JBool(a.allow_subdomains)
             [] k = "webhook_url" -> JStr(a.webhook_url[1])
             [] k = "whitelist_regexp" -> JStr(a.whitelist_regexp[1])
             [] k = "blacklist_regexp" -> JStr(a.blacklist_regexp[1])]

\* crawl_async, the payload dict
CrawlPayload(a) ==
    [k \in {"url", "scrape_type", "items_limit", "allow_subdomains"}
           \cup (IF TruthyStr(a.webhook_url) THEN {"webhook_url"} ELSE {})
           \cup (IF TruthyStr(a.whitelist_regexp) THEN {"whitelist_regexp"} ELSE {})
           \cup (IF TruthyStr(a.blacklist_regexp) THEN {"blacklist_regexp"} ELSE {})
       |-> CASE k = "url" -> JStr(a.url)
             [] k = "scrape_type" -> JStr(a.scrape_type)
             [] k = "items_limit" -> JInt(a.items_limit)
             [] k = "allow_subdomains" -> JBool(a.allow_subdomains)
             [] k = "webhook_url" -> JStr(a.webhook_url[1])
             [] k = "whitelist_regexp" -> JStr(a.whitelist_regexp[1])
             [] k = "blacklist_regexp" -> JStr(a.blacklist_regexp[1])]

\* scrape_async, the payload dict
ScrapePayload(a) ==
    [k \in {"crawler_id", "input"}
           \cup (IF TruthyStr(a.webhook_url) THEN {"webhook_url"} ELSE {})
       |-> CASE k = "crawler_id" -> JStr(a.crawler_id)
             [] k = "input" -> JObj(a.input_data)
             [] k = "webhook_url" -> JStr(a.webhook_url[1])]

----------------------------------------------------------------------------
(* The decisions of the polling loops *)

\* a loop test that waits for the counter to hit the budget exactly
LoopContinues_NotEqual(p, max) == p # max

\* a loop test that is off by one
LoopContinues_OffByOne(p, max) == p <= max

\* while polls < max_polls
LoopContinues(p, max) == p < max

\* a crawl that returns early only when the job is done
CrawlStops_DoneOnly(j) == j.status = "done"

\* crawl: if job.is_terminal: return job
CrawlStops(j) == is_terminal(j)

\* a crawl that divides with floor division
CrawlDelay_FloorDiv(j) ==
    IF TruthyInt(j.recommended_pull_delay_ms)
    THEN Seconds(j.recommended_pull_delay_ms[1] \div MsPerSecond)
    ELSE Seconds(DEFAULT_POLL_DELAY_SECONDS)

\* crawl: delay_seconds
CrawlDelay(j) ==
    IF TruthyInt(j.recommended_pull_delay_ms)
    THEN TrueDiv(j.recommended_pull_delay_ms[1], MsPerSecond)
    ELSE Seconds(DEFAULT_POLL_DELAY_SECONDS)

\* crawl: the statement after the loop, return job
CrawlAfterLoop(j) == IF j = <<>> THEN UnboundLocalError ELSE Return(j[1])

\* scrape: if result.status == "done"
ScrapeDone(r) == r.status = "done"

\* a scrape that returns the whole result
ScrapeValue_WholeResult(r) == r

\* scrape: return result.structured_data
ScrapeValue(r) == r.structured_data

\* a scrape that fails on every terminal status
ScrapeFailed_AnyTerminal(r) == r.status \in {"error", "cancelled"}

\* scrape: if result.status == "error"
ScrapeFailed(r) == r.status = "error"

\* a scrape that drops the reported error text
ScrapeError_Generic(r) == Raise("RuntimeError", <<"Scraping failed: ", "Unknown error">>)

\* scrape: the RuntimeError raised for status error
ScrapeError(r) ==
    Raise("RuntimeError",
          <<"Scraping failed: ", IF hasattr(r, "error") THEN r.error ELSE "Unknown error">>)

\* scrape: delay_seconds
ScrapeDelay(r) ==
    IF hasattr(r, "recommended_pull_delay_ms") /\ r.recommended_pull_delay_ms # 0
    THEN TrueDiv(r.recommended_pull_delay_ms, MsPerSecond)
    ELSE Seconds(DEFAULT_POLL_DELAY_SECONDS)

\* a scrape that, like crawl, returns what it last fetched
ScrapeAfterLoop_Returns == Return(None)

\* scrape: the statement after the loop
ScrapeAfterLoop == Raise("RuntimeError", <<"Maximum number of polls reached without completion">>)

\* a call that sends a failed request again
AfterFailure_Retry(at) == at

\* where a blocking call stands once a request of it has failed: the
\* exception leaves crawl / scrape, which has no try block
AfterFailure(at) == "done"

----------------------------------------------------------------------------
(* __init__: the client *)

\* str.rstrip('/') on a string given as its sequence of characters
RECURSIVE rstrip_slash(_)
rstrip_slash(u) ==
    IF u # <<>> /\ u[Len(u)] = "/" THEN rstrip_slash(SubSeq(u, 1, Len(u) - 1)) ELSE u

\* WebCrawlerAPI(api_key, base_url, version)
NewClient(api_key, base_url, version) ==
    [api_key |-> api_key,
     base_url |-> rstrip_slash(base_url),
     version |-> version,
     headers |-> [Authorization |-> <<"Bearer ", api_key>>,
                  ContentType |-> "application/json"]]

\* the clients callers construct: a base URL with and without trailing slashes
Clients ==
    {NewClient("key", u, "v1") : u \in {<<"h", "o", "s", "t">>, <<"h", "o", "s", "t", "/", "/">>}}

\* no second call has been entered
NoPeer == [pc |-> "idle", max_polls |-> 0, polls |-> 0]

----------------------------------------------------------------------------
(* The state machine *)

Init ==
    /\ op = "none"
    /\ pc = "idle"
    /\ args = NoArgs
    /\ job_id = <<>>
    /\ polls = 0
    /\ job = <<>>
    /\ delay = <<>>
    /\ outcome = NoOutcome
    /\ trace = <<>>
    /\ fetched = <<>>
    /\ client \in Clients
    /\ server = [j \in JobIds |-> "pending"]
    /\ peer = NoPeer
    /\ calls = 0

\* a caller enters crawl(...)
CrawlCall ==
    /\ pc = "idle"
    /\ \E a \in CrawlArgs : args' = a
    /\ op' = "crawl"
    /\ pc' = "start"
    /\ UNCHANGED <<job_id, polls, job, delay, outcome, trace, fetched>>
    /\ UNCHANGED world

\* response = self.crawl_async(...); job_id = response.id; polls = 0
CrawlStart ==
    /\ pc = "start" /\ op = "crawl"
    /\ \E ok \in BOOLEAN :
         /\ trace' = Append(trace, EvPost("crawl", CrawlPayload(args), ok))
         /\ IF ok
            THEN /\ \E id \in JobIds : job_id' = Some(id)
                 /\ polls' = 0
                 /\ pc' = "loop"
                 /\ outcome' = outcome
            ELSE /\ pc' = AfterFailure(pc)
                 /\ outcome' = IF pc' = "done" THEN HTTPError ELSE outcome
                 /\ UNCHANGED <<job_id, polls>>
    /\ UNCHANGED <<op, args, job, delay, fetched>>
    /\ UNCHANGED world

\* while polls < max_polls: ... ; return job
CrawlLoop ==
    /\ pc = "loop" /\ op = "crawl"
    /\ IF LoopContinues(polls, args.max_polls)
       THEN pc' = "fetch" /\ outcome' = outcome
       ELSE pc' = "done" /\ outcome' = CrawlAfterLoop(job)
    /\ UNCHANGED <<op, args, job_id, polls, job, delay, trace, fetched>>
    /\ UNCHANGED world

\* job = self.get_job(job_id); the terminal test; delay_seconds
CrawlFetch ==
    /\ pc = "fetch" /\ op = "crawl"
    /\ \/ /\ trace' = Append(trace, EvGet("job", job_id[1], FALSE, "none"))
          /\ pc' = AfterFailure(pc)
          /\ outcome' = IF pc' = "done" THEN HTTPError ELSE outcome
          /\ UNCHANGED <<job, delay, fetched>>
       \/ \E data \in JobJsons :
            /\ trace' = Append(trace, EvGet("job", job_id[1], TRUE, data.status))
            /\ job' = Some(Job(data))
            /\ fetched' = Some(data)
            /\ IF CrawlStops(Job(data))
               THEN /\ pc' = "done"
                    /\ outcome' = Return(Job(data))
                    /\ delay' = delay
               ELSE /\ pc' = "sleep"
                    /\ delay' = Some(CrawlDelay(Job(data)))
                    /\ outcome' = outcome
    /\ UNCHANGED <<op, args, job_id, polls>>
    /\ UNCHANGED world

\* a crawl that does not sleep after the fetch that uses up the budget
CrawlSleep_SkipsLast ==
    /\ pc = "sleep" /\ op = "crawl"
    /\ trace' = IF polls + 1 < args.max_polls
                THEN Append(trace, EvSleep(delay[1]))
                ELSE trace
    /\ polls' = polls + 1
    /\ pc' = "loop"
    /\ UNCHANGED <<op, args, job_id, job, delay, outcome, fetched>>
    /\ UNCHANGED world

\* a crawl that sleeps and forgets to count the poll
CrawlSleep_NoIncrement ==
    /\ pc = "sleep" /\ op = "crawl"
    /\ trace' = Append(trace, EvSleep(delay[1]))
    /\ pc' = "loop"
    /\ UNCHANGED <<op, args, job_id, polls, job, delay, outcome, fetched>>
    /\ UNCHANGED world

\* time.sleep(delay_seconds); polls += 1
CrawlSleep ==
    /\ pc = "sleep" /\ op = "crawl"
    /\ trace' = Append(trace, EvSleep(delay[1]))
    /\ polls' = polls + 1
    /\ pc' = "loop"
    /\ UNCHANGED <<op, args, job_id, job, delay, outcome, fetched>>
    /\ UNCHANGED world

\* a caller enters scrape(...)
ScrapeCall ==
    /\ pc = "idle"
    /\ \E a \in ScrapeArgs : args' = a
    /\ op' = "scrape"
    /\ pc' = "start"
    /\ UNCHANGED <<job_id, polls, job, delay, outcome, trace, fetched>>
    /\ UNCHANGED world

\* response = self.scrape_async(...); scrape_id = response.id; polls = 0
ScrapeStart ==
    /\ pc = "start" /\ op = "scrape"
    /\ \E ok \in BOOLEAN :
         /\ trace' = Append(trace, EvPost("scrape", ScrapePayload(args), ok))
         /\ IF ok
            THEN /\ \E id \in JobIds : job_id' = Some(id)
                 /\ polls' = 0
                 /\ pc' = "loop"
                 /\ outcome' = outcome
            ELSE /\ pc' = AfterFailure(pc)
                 /\ outcome' = IF pc' = "done" THEN HTTPError ELSE outcome
                 /\ UNCHANGED <<job_id, polls>>
    /\ UNCHANGED <<op, args, job, delay, fetched>>
    /\ UNCHANGED world

\* while polls < max_polls: ... ; raise RuntimeError("Maximum number ...")
ScrapeLoop ==
    /\ pc = "loop" /\ op = "scrape"
    /\ IF LoopContinues(polls, args.max_polls)
       THEN pc' = "fetch" /\ outcome' = outcome
       ELSE pc' = "done" /\ outcome' = ScrapeAfterLoop
    /\ UNCHANGED <<op, args, job_id, polls, job, delay, trace, fetched>>
    /\ UNCHANGED world

\* result = self.get_scrape(scrape_id); the done and error tests; delay_seconds
ScrapeFetch ==
    /\ pc = "fetch" /\ op = "scrape"
    /\ \/ /\ trace' = Append(trace, EvGet("scrape", job_id[1], FALSE, "none"))
          /\ pc' = AfterFailure(pc)
          /\ outcome' = IF pc' = "done" THEN HTTPError ELSE outcome
          /\ UNCHANGED <<job, delay, fetched>>
       \/ \E data \in ScrapeJsons :
            /\ trace' = Append(trace, EvGet("scrape", job_id[1], TRUE, data.status))
            /\ job' = Some(ScrapeResult(data))
            /\ fetched' = Some(data)
            /\ IF ScrapeDone(ScrapeResult(data))
               THEN /\ pc' = "done"
                    /\ outcome' = Return(ScrapeValue(ScrapeResult(data)))
                    /\ delay' = delay
               ELSE IF ScrapeFailed(ScrapeResult(data))
               THEN /\ pc' = "done"
                    /\ outcome' = ScrapeError(ScrapeResult(data))
                    /\ delay' = delay
               ELSE /\ pc' = "sleep"
                    /\ delay' = Some(ScrapeDelay(ScrapeResult(data)))
                    /\ outcome' = outcome
    /\ UNCHANGED <<op, args, job_id, polls>>
    /\ UNCHANGED world

\* a scrape that counts the poll and forgets to sleep
ScrapeSleep_NoSleep ==
    /\ pc = "sleep" /\ op = "scrape"
    /\ polls' = polls + 1
    /\ pc' = "loop"
    /\ UNCHANGED <<op, args, job_id, job, delay, outcome, trace, fetched>>
    /\ UNCHANGED world

\* time.sleep(delay_seconds); polls += 1
ScrapeSleep ==
    /\ pc = "sleep" /\ op = "scrape"
    /\ trace' = Append(trace, EvSleep(delay[1]))
    /\ polls' = polls + 1
    /\ pc' = "loop"
    /\ UNCHANGED <<op, args, job_id, job, delay, outcome, fetched>>
    /\ UNCHANGED world

\* the blocking call has returned or raised: its frame is gone, the client stays
Finish ==
    /\ pc = "done"
    /\ calls < MaxCalls
    /\ calls' = calls + 1
    /\ op' = "none"
    /\ pc' = "idle"
    /\ args' = NoArgs
    /\ job_id' = <<>>
    /\ polls' = 0
    /\ job' = <<>>
    /\ delay' = <<>>
    /\ outcome' = NoOutcome
    /\ trace' = <<>>
    /\ fetched' = <<>>
    /\ UNCHANGED <<client, server, peer>>

\* a caller enters cancel_job(job_id)
CancelCall ==
    /\ pc = "idle"
    /\ \E id \in JobIds : args' = [job_id |-> id]
    /\ op' = "cancel"
    /\ pc' = "start"
    /\ UNCHANGED <<job_id, polls, job, delay, outcome, trace, fetched>>
    /\ UNCHANGED world

\* what cancelling does to a job on the service: one that has not finished
\* becomes cancelled, a finished one stays as it is
Cancelled(status) == IF status \in {"pending", "running"} THEN "cancelled" ELSE status

\* a cancel_job that looks the job up first and refuses a finished one
CancelRequest_ChecksStatus ==
    /\ pc = "start" /\ op = "cancel"
    /\ IF server[args.job_id] \in TerminalStatuses
       THEN /\ trace' = Append(trace, EvGet("job", args.job_id, TRUE, server[args.job_id]))
            /\ outcome' = Raise("ValueError", <<"job already finished">>)
            /\ server' = server
       ELSE /\ trace' = Append(trace, EvPut("cancel", args.job_id, TRUE))
            /\ outcome' = Return([message |-> "Job cancelled"])
            /\ server' = [server EXCEPT ![args.job_id] = Cancelled(@)]
    /\ pc' = "done"
    /\ UNCHANGED <<op, args, job_id, polls, job, delay, fetched, client, peer, calls>>

\* cancel_job: response = self.session.put(...); raise_for_status(); return response.json()
CancelRequest ==
    /\ pc = "start" /\ op = "cancel"
    /\ \/ /\ trace' = Append(trace, EvPut("cancel", args.job_id, FALSE))
          /\ outcome' = HTTPError
          /\ server' = server
       \/ \E body \in CancelJsons :
            /\ trace' = Append(trace, EvPut("cancel", args.job_id, TRUE))
            /\ outcome' = Return(body)
            /\ server' = [server EXCEPT ![args.job_id] = Cancelled(@)]
    /\ pc' = "done"
    /\ UNCHANGED <<op, args, job_id, polls, job, delay, fetched, client, peer, calls>>

\* the service moves a job on: pending, running, then done or error
ServerMoves ==
    /\ \E id \in JobIds :
         \E st \in ServerStatuses :
            /\ \/ server[id] = "pending" /\ st \in {"running", "done", "error"}
               \/ server[id] = "running" /\ st \in {"done", "error"}
            /\ server' = [server EXCEPT ![id] = st]
    /\ UNCHANGED frame
    /\ UNCHANGED <<client, peer, calls>>

Next ==
    \/ CrawlCall \/ CrawlStart \/ CrawlLoop \/ CrawlFetch \/ CrawlSleep
    \/ ScrapeCall \/ ScrapeStart \/ ScrapeLoop \/ ScrapeFetch \/ ScrapeSleep

Spec == Init /\ [][Next]_vars

\* the steps of a blocking call once it is entered: each request it sends is
\* answered or fails, each sleep ends
CallStep ==
    \/ CrawlStart \/ CrawlLoop \/ CrawlFetch \/ CrawlSleep
    \/ ScrapeStart \/ ScrapeLoop \/ ScrapeFetch \/ ScrapeSleep

\* the blocking calls, every HTTP request and every sleep of which completes
SpecFair == Init /\ [][Next]_vars /\ WF_vars(CallStep)

\* the max_polls values of the calls that share one client
SharedPollArgs == (-1)..MaxSharedPolls

\* a caller enters crawl(url, max_polls=n)
CrawlCallPlain ==
    /\ pc = "idle"
    /\ \E a \in CrawlArgs :
         /\ a.scrape_type = "html"
         /\ a.webhook_url = None /\ a.whitelist_regexp = None /\ a.blacklist_regexp = None
         /\ a.max_polls \in SharedPollArgs
         /\ args' = a
    /\ op' = "crawl"
    /\ pc' = "start"
    /\ UNCHANGED <<job_id, polls, job, delay, outcome, trace, fetched>>
    /\ UNCHANGED world

\* a caller enters scrape(crawler_id, input_data, max_polls=n)
ScrapeCallPlain ==
    /\ pc = "idle"
    /\ \E a \in ScrapeArgs :
         /\ a.webhook_url = None
         /\ a.max_polls \in SharedPollArgs
         /\ args' = a
    /\ op' = "scrape"
    /\ pc' = "start"
    /\ UNCHANGED <<job_id, polls, job, delay, outcome, trace, fetched>>
    /\ UNCHANGED world

\* another caller enters crawl or scrape on the same client: a frame of its own
PeerCall ==
    /\ peer.pc = "idle"
    /\ \E n \in SharedPollArgs : peer' = [pc |-> "start", max_polls |-> n, polls |-> 0]
    /\ UNCHANGED frame
    /\ UNCHANGED <<client, server, calls>>

\* the second call: its start request; polls = 0
PeerStart ==
    /\ peer.pc = "start"
    /\ \E ok \in BOOLEAN :
         peer' = [peer EXCEPT !.pc = IF ok THEN "loop" ELSE AfterFailure("start"),
                              !.polls = 0]
    /\ UNCHANGED frame
    /\ UNCHANGED <<client, server, calls>>

\* the second call: while polls < max_polls
PeerLoop ==
    /\ peer.pc = "loop"
    /\ peer' = [peer EXCEPT !.pc = IF LoopContinues(peer.polls, peer.max_polls)
                                   THEN "fetch" ELSE "done"]
    /\ UNCHANGED frame
    /\ UNCHANGED <<client, server, calls>>

\* the second call: its fetch fails or ends its loop, or it goes on to sleep
PeerFetch ==
    /\ peer.pc = "fetch"
    /\ \E next \in {"done", "sleep"} : peer' = [peer EXCEPT !.pc = next]
    /\ UNCHANGED frame
    /\ UNCHANGED <<client, server, calls>>

\* a client that keeps the poll counter on self, shared by the calls on it
PeerSleep_SharedCounter ==
    /\ peer.pc = "sleep"
    /\ peer' = [peer EXCEPT !.pc = "loop", !.polls = @ + 1]
    /\ polls' = polls + 1
    /\ UNCHANGED <<op, pc, args, job_id, job, delay, outcome, trace, fetched>>
    /\ UNCHANGED <<client, server, calls>>

\* the second call: time.sleep(delay_seconds); polls += 1, on its own counter
PeerSleep ==
    /\ peer.pc = "sleep"
    /\ peer' = [peer EXCEPT !.pc = "loop", !.polls = @ + 1]
    /\ UNCHANGED frame
    /\ UNCHANGED <<client, server, calls>>

\* blocking calls one after another on one client, a second blocking call
\* running on the same client in between their steps
NextShared ==
    \/ CrawlCallPlain \/ ScrapeCallPlain \/ CallStep \/ Finish
    \/ PeerCall \/ PeerStart \/ PeerLoop \/ PeerFetch \/ PeerSleep

SpecShared == Init /\ [][NextShared]_vars

\* cancel_job, called again and again while the service moves the jobs on
NextCancel == CancelCall \/ CancelRequest \/ ServerMoves \/ Finish

SpecCancel == Init /\ [][NextCancel]_vars

----------------------------------------------------------------------------
(* Reading the history *)

OkFetch(e) == IsFetch(e) /\ e.ok
FailedRequest(e) == IsRequest(e) /\ ~e.ok
TerminalFetch(e) == OkFetch(e) /\ e.status \in {"done", "error", "cancelled"}

Fetches == Count(trace, IsFetch)
Sleeps == Count(trace, IsSleep)

\* every request of the call so far was answered 2xx
AllAnswered == \A i \in DOMAIN trace : ~FailedRequest(trace[i])

\* the status of the n-th fetch of the call
NthFetchStatus(n) ==
    LET i == CHOOSE k \in DOMAIN trace :
                 IsFetch(trace[k]) /\ Cardinality({m \in 1..k : IsFetch(trace[m])}) = n
    IN trace[i].status

----------------------------------------------------------------------------
(* Claims *)

\* C1: crawl returns at the first fetch whose status is terminal (done, error
\* or cancelled): that fetch is the last event of the call (no fetch and no
\* sleep follow it), the call has ended by returning, not raising, and the Job
\* returned is the snapshot parsed from that fetch.
C1_CrawlReturnsAtFirstTerminal ==
    op = "crawl" =>
        \A i \in DOMAIN trace :
            TerminalFetch(trace[i]) =>
                /\ i = Len(trace)
                /\ pc = "done"
                /\ outcome.kind = "return"
                /\ outcome.value = Job(fetched[1])
                /\ outcome.value.status = trace[i].status

\* C1 witness: a crawl that polled twice without a terminal status and then
\* fetched a cancelled job
C1_Witness ==
    /\ op = "crawl" /\ pc = "done" /\ outcome.kind = "return"
    /\ Fetches = 3 /\ Sleeps = 2
    /\ outcome.value.status = "cancelled"

\* C2: a crawl with max_polls = N >= 1 whose N fetches all succeed and never
\* show a terminal status performs exactly N fetches and then returns the
\* snapshot of the N-th fetch, raising nothing.
C2_CrawlReturnsNthSnapshot ==
    (/\ op = "crawl" /\ pc = "done" /\ args.max_polls >= 1
     /\ AllAnswered
     /\ \A i \in DOMAIN trace : ~TerminalFetch(trace[i]))
    => /\ Fetches = args.max_polls
       /\ outcome.kind = "return"
       /\ outcome.value = Job(fetched[1])
       /\ IsSleep(trace[Len(trace)])
       /\ outcome.value.status = NthFetchStatus(args.max_polls)

\* C2 witness: a crawl with max_polls = 2 that ended on the budget, its last
\* snapshot carrying a hint the one before did not
C2_Witness ==
    /\ op = "crawl" /\ pc = "done" /\ args.max_polls = 2
    /\ Fetches = 2 /\ Sleeps = 2
    /\ outcome.kind = "return"
    /\ outcome.value.recommended_pull_delay_ms = Some(1500)
    /\ trace[3].seconds = Seconds(5)

\* C3 (as claimed): for every max_polls, 0 and negative values included, a
\* crawl whose start request and fetches all succeed ends by returning a Job
\* snapshot fetched during that call.
C3_CrawlAlwaysReturnsFetchedJob ==
    (op = "crawl" /\ pc = "done" /\ AllAnswered)
    => /\ outcome.kind = "return"
       /\ fetched # <<>>
       /\ outcome.value = Job(fetched[1])

\* C4: a scrape that leaves its loop on the poll budget, no fetch of it having
\* shown done or error, raises the RuntimeError 'Maximum number of polls
\* reached without completion' and returns nothing; the failure raised for
\* status error never carries that message.
C4_ScrapeExhaustionRaises ==
    (op = "scrape" /\ pc = "done" /\ AllAnswered) =>
        /\ (\A i \in DOMAIN trace :
                ~(OkFetch(trace[i]) /\ trace[i].status \in {"done", "error"}))
           => /\ outcome.kind = "raise"
              /\ outcome.exc = "RuntimeError"
              /\ outcome.msg = <<"Maximum number of polls reached without completion">>
              /\ Fetches = (IF args.max_polls > 0 THEN args.max_polls ELSE 0)
        /\ (\E i \in DOMAIN trace : OkFetch(trace[i]) /\ trace[i].status = "error")
           => /\ outcome.kind = "raise"
              /\ outcome.msg # <<"Maximum number of polls reached without completion">>

\* C4 witness: a scrape with max_polls = 2 that saw pending, then cancelled,
\* and ended on the budget
C4_Witness ==
    /\ op = "scrape" /\ pc = "done" /\ args.max_polls = 2
    /\ Fetches = 2 /\ Sleeps = 2
    /\ trace[2].status = "pending" /\ trace[4].status = "cancelled"
    /\ outcome.kind = "raise"

\* C4 witness for a budget of zero: no fetch at all
C4_WitnessZero ==
    /\ op = "scrape" /\ pc = "done" /\ args.max_polls = 0
    /\ Fetches = 0 /\ Len(trace) = 1 /\ trace[1].ok

\* C5: when a fetch inside scrape shows status error, scrape raises a
\* RuntimeError at that fetch (it is the last event of the call); the message
\* carries the error text of the response body when the body has one, and
\* 'Unknown error' when it has none.
C5_ScrapeErrorMessage ==
    op = "scrape" =>
        \A i \in DOMAIN trace :
            (OkFetch(trace[i]) /\ trace[i].status = "error") =>
                /\ i = Len(trace)
                /\ pc = "done"
                /\ outcome.kind = "raise"
                /\ outcome.exc = "RuntimeError"
                /\ outcome.msg[1] = "Scraping failed: "
                /\ outcome.msg[2] = (IF fetched[1].error # None
                                     THEN fetched[1].error[1]
                                     ELSE "Unknown error")

\* C5 witness: the error status arrives on the second fetch, with its text
C5_Witness ==
    /\ op = "scrape" /\ pc = "done" /\ Fetches = 2 /\ Sleeps = 1
    /\ fetched # <<>> /\ fetched[1].status = "error"
    /\ fetched[1].error = Some("boom")
    /\ outcome.kind = "raise" /\ outcome.msg[2] = "boom"

\* C5 witness: the error status arrives without any text
C5_WitnessNoText ==
    /\ op = "scrape" /\ pc = "done"
    /\ fetched # <<>> /\ fetched[1].status = "error"
    /\ fetched[1].error = None
    /\ outcome.kind = "raise" /\ outcome.msg[2] = "Unknown error"

\* the fetches and sleeps of a call are counted by its poll counter: one fetch
\* in every iteration entered, one sleep in every iteration completed
OneFetchPerIteration ==
    /\ Sleeps = (IF pc \in {"idle", "start"} THEN 0 ELSE polls)
    /\ pc \in {"idle", "start", "loop", "fetch"} => Fetches = Sleeps
    /\ pc = "sleep" => Fetches = Sleeps + 1
    /\ pc = "done" => Fetches \in {Sleeps, Sleeps + 1}

\* C6 (as claimed): in crawl and in scrape every polling iteration performs
\* exactly one fetch, and a fetch whose status is done, error or cancelled
\* ends the flow there, with no sleep and no fetch after it; so a scrape that
\* fetches status cancelled stops polling at that fetch.
C6_BothFlowsStopOnTerminal ==
    /\ OneFetchPerIteration
    /\ \A i \in DOMAIN trace :
           TerminalFetch(trace[i]) => (i = Len(trace) /\ pc = "done")

\* C6 (amended): every polling iteration performs exactly one fetch; crawl
\* stops at a fetch whose status is done, error or cancelled; scrape stops at
\* a fetch whose status is done or error, and treats cancelled like any other
\* status: the fetch is followed by a sleep and the loop goes on.
C6_StopsOnTheStatusesEachFlowTests ==
    /\ OneFetchPerIteration
    /\ \A i \in DOMAIN trace :
           /\ (op = "crawl" /\ TerminalFetch(trace[i]))
              => (i = Len(trace) /\ pc = "done" /\ outcome.kind = "return")
           /\ (op = "scrape" /\ OkFetch(trace[i]) /\ trace[i].status \in {"done", "error"})
              => (i = Len(trace) /\ pc = "done")
           /\ (op = "scrape" /\ OkFetch(trace[i]) /\ trace[i].status = "cancelled")
              => IF i = Len(trace) THEN pc = "sleep" ELSE IsSleep(trace[i + 1])

\* C6 witness: a scrape that fetched cancelled, slept and fetched again
C6_Witness ==
    /\ op = "scrape" /\ Len(trace) >= 4
    /\ OkFetch(trace[2]) /\ trace[2].status = "cancelled"
    /\ IsSleep(trace[3]) /\ IsFetch(trace[4])

\* C7: a failed request (the start request or a status fetch) is the last
\* event of the blocking call: the call has ended by raising the HTTP error,
\* with no request and no sleep after it and no value returned; a call that
\* ended with the HTTP error ended at such a request; and no request is sent
\* twice: one start request, one fetch per iteration.
C7_NoRetry ==
    /\ \A i \in DOMAIN trace :
           FailedRequest(trace[i]) =>
               (i = Len(trace) /\ pc = "done" /\ outcome = Raise("HTTPError", <<>>))
    /\ (outcome.kind = "raise" /\ outcome.exc = "HTTPError")
           => (Len(trace) > 0 /\ FailedRequest(trace[Len(trace)]))
    /\ Cardinality({i \in DOMAIN trace : trace[i].kind = "POST"}) <= 1
    /\ \A i \in DOMAIN trace :
           (IsFetch(trace[i]) /\ i < Len(trace)) => IsSleep(trace[i + 1])

\* C7 witness: the third fetch of a scrape fails
C7_Witness ==
    /\ op = "scrape" /\ pc = "done" /\ Fetches = 3 /\ Sleeps = 2
    /\ FailedRequest(trace[Len(trace)])
    /\ outcome.kind = "raise"

\* C7 witness: the start request of a crawl fails
C7_WitnessStart ==
    /\ op = "crawl" /\ pc = "done" /\ Len(trace) = 1
    /\ FailedRequest(trace[1])

\* the delay the claim names for a response body: the hint over 1000 when the
\* body carries a nonzero hint, 5 seconds otherwise
HintedSeconds(data) ==
    IF data.recommended_pull_delay_ms # None /\ data.recommended_pull_delay_ms[1] # 0
    THEN <<data.recommended_pull_delay_ms[1], 1000>>
    ELSE <<5, 1>>

\* C8: in crawl and in scrape, the delay computed after a non-terminal fetch,
\* and the delay then slept, is recommended_pull_delay_ms / 1000 seconds when
\* the body just fetched carries a nonzero hint and 5 seconds when the hint is
\* absent or zero; it is computed from the body fetched in that iteration.
C8_DelaySelection ==
    /\ pc = "sleep" => SameSeconds(delay[1], HintedSeconds(fetched[1]))
    /\ (Len(trace) > 0 /\ IsSleep(trace[Len(trace)]))
           => SameSeconds(trace[Len(trace)].seconds, HintedSeconds(fetched[1]))

\* C8 witness: a crawl slept 1.5 seconds on a hint of 1500 ms after having
\* slept the default on an earlier snapshot without a hint
C8_Witness ==
    /\ op = "crawl" /\ Len(trace) = 5
    /\ trace[3].seconds = <<5, 1>>
    /\ fetched[1].recommended_pull_delay_ms = Some(1500)
    /\ trace[5].kind = "sleep" /\ trace[5].seconds = <<1500, 1000>>

\* C8 witness: a scrape slept the default on a hint of zero after a hinted sleep
C8_WitnessScrape ==
    /\ op = "scrape" /\ Len(trace) = 5
    /\ trace[3].seconds = <<1500, 1000>>
    /\ fetched[1].recommended_pull_delay_ms = Some(0)
    /\ trace[5].kind = "sleep" /\ trace[5].seconds = <<5, 1>>

\* the optional fields of the crawl creation body
OptionalFields == {"webhook_url", "whitelist_regexp", "blacklist_regexp"}

\* C9: the body crawl_async sends holds url, scrape_type, items_limit and
\* allow_subdomains and, of the optional fields webhook_url, whitelist_regexp
\* and blacklist_regexp, only those the caller supplied, with the value
\* supplied; a field not supplied is absent, and no field is null or "".
C9_PayloadOnlySuppliedFields ==
    \A i \in DOMAIN trace :
        (trace[i].kind = "POST" /\ trace[i].path = "crawl") =>
            LET body == trace[i].body IN
            /\ DOMAIN body \subseteq
                   {"url", "scrape_type", "items_limit", "allow_subdomains"}
                   \cup {k \in OptionalFields : args[k] # None}
            /\ \A k \in OptionalFields : args[k] = None => k \notin DOMAIN body
            /\ \A k \in DOMAIN body \cap OptionalFields : body[k].v = args[k][1]
            /\ \A k \in DOMAIN body :
                   /\ body[k].t # "null"
                   /\ body[k].t = "str" => body[k].v # ""

\* C9 witness: a body sent with a whitelist, for a call that gave no webhook
\* and an empty blacklist
C9_Witness ==
    /\ op = "crawl" /\ Len(trace) >= 1
    /\ args.webhook_url = None /\ args.blacklist_regexp = Some("")
    /\ DOMAIN trace[1].body =
           {"url", "scrape_type", "items_limit", "allow_subdomains", "whitelist_regexp"}

\* C10: scrape returns a value only at a fetch whose status is done: that
\* fetch is the last event of the call and the first to show done, and the
\* value returned is the structured_data of its body; and every fetch that
\* shows done ends the call that way.
C10_ScrapeReturnsStructuredData ==
    op = "scrape" =>
        /\ outcome.kind = "return" =>
               /\ Len(trace) > 0 /\ OkFetch(trace[Len(trace)])
               /\ trace[Len(trace)].status = "done"
               /\ fetched[1].status = "done"
               /\ outcome.value = fetched[1].structured_data
        /\ \A i \in DOMAIN trace :
               (OkFetch(trace[i]) /\ trace[i].status = "done") =>
                   (i = Len(trace) /\ pc = "done" /\ outcome.kind = "return")

\* C10 witness: done arrives on the third fetch with data d2
C10_Witness ==
    /\ op = "scrape" /\ pc = "done" /\ Fetches = 3 /\ Sleeps = 2
    /\ outcome = Return(Some("d2"))

\* C11: cancel_job sends exactly one request, the PUT that cancels the job it
\* was given, whatever status the service holds for that job (finished or
\* cancelled by an earlier cancel_job included); it never reads the status;
\* it raises exactly when that request is answered non-2xx, and then the HTTP
\* error; otherwise it returns the body of the answer.
C11_CancelIsOneUnconditionalRequest ==
    op = "cancel" =>
        /\ \A i \in DOMAIN trace : trace[i].kind = "PUT"
        /\ pc = "start" => (trace = <<>> /\ outcome = NoOutcome)
        /\ pc = "done" =>
               /\ Len(trace) = 1
               /\ trace[1].path = "cancel" /\ trace[1].id = args.job_id
               /\ (outcome.kind = "raise") = ~trace[1].ok
               /\ outcome.kind = "raise" => outcome = Raise("HTTPError", <<>>)
               /\ trace[1].ok => outcome \in {Return(b) : b \in CancelJsons}

\* C11 witness: a second cancel_job on a job that is already cancelled is
\* sent and answered 2xx
C11_Witness ==
    /\ op = "cancel" /\ pc = "done" /\ calls >= 1
    /\ server[args.job_id] = "cancelled"
    /\ Len(trace) = 1 /\ trace[1].ok
    /\ outcome.kind = "return"

\* C11 witness: cancel_job on a job that is done, answered non-2xx
C11_WitnessRefused ==
    /\ op = "cancel" /\ pc = "done"
    /\ server[args.job_id] = "done"
    /\ ~trace[1].ok /\ outcome.kind = "raise"

----------------------------------------------------------------------------
(* The poll budget *)

BlockingCall == op \in {"crawl", "scrape"}

\* the budget as the loop test sees it: a max_polls below zero counts as zero
Max0(n) == IF n > 0 THEN n ELSE 0

\* the statuses at which each flow leaves its loop
StopsTheLoop(o, status) ==
    IF o = "crawl" THEN status \in {"done", "error", "cancelled"}
    ELSE status \in {"done", "error"}

\* every request so far was answered and no fetched status ended the loop
NothingEndedTheLoop ==
    /\ AllAnswered
    /\ \A i \in DOMAIN trace : IsFetch(trace[i]) => ~StopsTheLoop(op, trace[i].status)

\* the call has ended by the statement after its loop: crawl by 'return job'
\* (a snapshot that is not terminal, or no snapshot at all), scrape by the
\* 'Maximum number of polls' error
BudgetExit ==
    /\ pc = "done"
    /\ \/ /\ op = "crawl"
          /\ \/ outcome = Raise("UnboundLocalError", <<"job">>)
             \/ /\ outcome.kind = "return"
                /\ outcome.value.status \notin {"done", "error", "cancelled"}
       \/ /\ op = "scrape"
          /\ outcome = Raise("RuntimeError",
                             <<"Maximum number of polls reached without completion">>)

\* C12 (as claimed): in every reachable state of a blocking call the number
\* of fetches performed so far is at most max_polls, and the call is at its
\* budget-exhausted exit exactly when the poll counter equals max_polls and
\* no fetched status ended the loop.
C12_FetchesAtMostMaxPolls ==
    BlockingCall =>
        /\ Fetches <= args.max_polls
        /\ pc = "done" =>
               (BudgetExit <=> (polls = args.max_polls /\ NothingEndedTheLoop))

\* what C12 (amended) says of a state
BudgetInvariant ==
    BlockingCall =>
        /\ Fetches <= Max0(args.max_polls)
        /\ polls <= Max0(args.max_polls)
        /\ pc = "done" =>
               (BudgetExit <=> (polls = Max0(args.max_polls) /\ NothingEndedTheLoop))

\* what C12 (amended) says of the loop test
BudgetStep ==
    (BlockingCall /\ pc = "loop") =>
        /\ pc' \in {"fetch", "done"}
        /\ (pc' = "done") <=> (polls = Max0(args.max_polls))

\* C12 (amended): in every reachable state of a blocking call the number of
\* fetches performed so far is at most max(max_polls, 0); the loop test sends
\* the call to its budget-exhausted exit exactly when the poll counter equals
\* max(max_polls, 0), and a call that has ended is at that exit exactly when
\* the counter has that value and neither a failed request nor a fetched
\* status ended the loop.
C12_PollBudgetBound == []BudgetInvariant /\ [][BudgetStep]_vars

\* C12 witness: a scrape that used up a budget of 3
C12_Witness ==
    /\ op = "scrape" /\ BudgetExit /\ args.max_polls = 3
    /\ polls = 3 /\ Fetches = 3

\* C12 witness: a scrape with max_polls = -1 is at the budget exit with the
\* counter at 0 and no fetch
C12_WitnessNegative ==
    /\ op = "scrape" /\ BudgetExit /\ args.max_polls = -1
    /\ polls = 0 /\ Fetches = 0

----------------------------------------------------------------------------
(* Termination *)

\* the requests and sleeps a blocking call can still issue: what is left of
\* the budget, twice (a fetch and a sleep per iteration), and the start request
StepsLeft ==
    CASE pc = "start" -> 1 + 2 * Max0(args.max_polls)
      [] pc = "loop" -> 2 * Max0(args.max_polls - polls)
      [] pc = "fetch" -> 2 * Max0(args.max_polls - polls)
      [] pc = "sleep" -> 2 * Max0(args.max_polls - polls) - 1
      [] OTHER -> 0

\* a blocking call never has issued more than 1 + 2 * max(max_polls, 0)
\* requests and sleeps, and each one it issues uses up one of those left
EventsBounded ==
    BlockingCall => Len(trace) + StepsLeft <= 1 + 2 * Max0(args.max_polls)

\* C13: every blocking crawl or scrape call ends, by returning or raising,
\* for every max_polls and every sequence of answers, when each of its HTTP
\* requests and each of its sleeps completes: a job that never becomes
\* terminal makes it poll max(max_polls, 0) times and no more, so that the
\* call is over after at most 1 + 2 * max(max_polls, 0) requests and sleeps.
C13_BlockingCallTerminates ==
    /\ (pc = "start") ~> (pc = "done" /\ outcome.kind \in {"return", "raise"})
    /\ []EventsBounded

\* C13 witness: a crawl whose job stayed running through a budget of 3 has
\* ended after 3 fetches and 3 sleeps
C13_Witness ==
    /\ op = "crawl" /\ pc = "done" /\ args.max_polls = 3
    /\ Len(trace) = 7
    /\ \A i \in {2, 4, 6} : trace[i].status = "running"
    /\ outcome.kind = "return"

----------------------------------------------------------------------------
(* The order of events *)

\* the start request comes first and is the only one; after it fetches (at
\* the even places) and sleeps (at the odd places) alternate; a fetch comes
\* only after a start request answered 2xx, and names the id that answer gave
StartThenAlternate ==
    /\ \A i \in DOMAIN trace :
           /\ (trace[i].kind = "POST") <=> (i = 1)
           /\ (i > 1 /\ i % 2 = 0) => IsFetch(trace[i])
           /\ (i > 1 /\ i % 2 = 1) => IsSleep(trace[i])
           /\ IsFetch(trace[i]) =>
                  (trace[1].ok /\ job_id # <<>> /\ trace[i].id = job_id[1])
    /\ pc \in {"loop", "fetch", "sleep"} => (Len(trace) >= 1 /\ trace[1].ok)
    /\ (pc = "done" /\ outcome.kind = "return") => (Len(trace) >= 1 /\ trace[1].ok)

\* C14 (as claimed): one start request, before every fetch; the first fetch
\* right after the successful start; then fetches and sleeps alternate, every
\* sleep right after a fetch that returned a non-terminal status (not done,
\* error or cancelled); all fetches use the id the start request returned.
C14_SleepOnlyAfterNonTerminal ==
    BlockingCall =>
        /\ StartThenAlternate
        /\ \A i \in DOMAIN trace :
               IsSleep(trace[i]) =>
                   /\ i > 1 /\ OkFetch(trace[i - 1])
                   /\ trace[i - 1].status \notin {"done", "error", "cancelled"}

\* the id never changes once the start request has returned it
IdKept == (BlockingCall /\ job_id # <<>>) => job_id' = job_id

\* C14 (amended): one start request, before every fetch; the first fetch
\* right after the successful start; then fetches and sleeps alternate, every
\* sleep right after a fetch that was answered with a status that does not end
\* the loop of that flow (crawl: not done, error or cancelled; scrape: not done
\* or error, so also after cancelled); all fetches use the id the start
\* request returned.
C14_EventOrdering ==
    /\ [](BlockingCall =>
            /\ StartThenAlternate
            /\ \A i \in DOMAIN trace :
                   IsSleep(trace[i]) =>
                       /\ i > 1 /\ OkFetch(trace[i - 1])
                       /\ ~StopsTheLoop(op, trace[i - 1].status))
    /\ [][IdKept]_vars

\* C14 witness: start, fetch, sleep, fetch, sleep, fetch in a scrape
C14_Witness ==
    /\ op = "scrape" /\ Len(trace) = 6
    /\ trace[1].kind = "POST" /\ IsFetch(trace[2]) /\ IsSleep(trace[3])
    /\ IsFetch(trace[4]) /\ IsSleep(trace[5]) /\ IsFetch(trace[6])
    /\ trace[6].id = "j2"

----------------------------------------------------------------------------
(* The sleep after the last fetch *)

\* C15 (as claimed): when crawl or scrape exits because the poll budget is
\* used up, the number of sleeps equals the number of fetches and both equal
\* max_polls; the last event is a sleep that follows the final fetch, and
\* what crawl returns is the snapshot fetched before that sleep.
C15_SleepsEqualMaxPolls ==
    (BlockingCall /\ BudgetExit) =>
        /\ Sleeps = Fetches
        /\ Fetches = args.max_polls
        /\ Fetches >= 1 =>
               /\ IsSleep(trace[Len(trace)])
               /\ OkFetch(trace[Len(trace) - 1])
               /\ op = "crawl" => outcome = Return(Job(fetched[1]))

\* C15 (amended): when crawl or scrape exits because the poll budget is used
\* up, the number of sleeps equals the number of fetches and both equal
\* max(max_polls, 0); if that number is not 0, the last event of the call is
\* a sleep, it directly follows the final fetch, and what crawl returns is the
\* snapshot of that fetch, taken before the sleep; if it is 0, the call has
\* neither fetched nor slept.
C15_FinalSleepOnExhaustion ==
    (BlockingCall /\ BudgetExit) =>
        /\ Sleeps = Fetches
        /\ Fetches = Max0(args.max_polls)
        /\ Fetches = 0 => Len(trace) = 1
        /\ Fetches >= 1 =>
               /\ IsSleep(trace[Len(trace)])
               /\ OkFetch(trace[Len(trace) - 1])
               /\ \A i \in DOMAIN trace : IsFetch(trace[i]) => i < Len(trace)
               /\ op = "crawl" =>
                      /\ outcome = Return(Job(fetched[1]))
                      /\ outcome.value.status = trace[Len(trace) - 1].status

\* C15 witness: a crawl with a budget of 2 returns a running job after its
\* second sleep
C15_Witness ==
    /\ op = "crawl" /\ BudgetExit /\ args.max_polls = 2
    /\ Len(trace) = 5 /\ IsFetch(trace[4]) /\ IsSleep(trace[5])
    /\ outcome = Return(Job(fetched[1]))

\* the last event of the call is a fetch whose status ended the loop
EndedByStatus ==
    /\ Len(trace) > 0
    /\ OkFetch(trace[Len(trace)])
    /\ StopsTheLoop(op, trace[Len(trace)].status)

\* the outcome of a finished call, from its own arguments and the answers
\* to its own requests alone
OwnOutcome ==
    IF ~AllAnswered THEN HTTPError
    ELSE IF EndedByStatus
    THEN IF op = "crawl" THEN Return(Job(fetched[1]))
         ELSE IF ScrapeDone(ScrapeResult(fetched[1]))
              THEN Return(ScrapeValue(ScrapeResult(fetched[1])))
              ELSE ScrapeError(ScrapeResult(fetched[1]))
    ELSE IF op = "crawl"
         THEN IF Fetches = 0 THEN UnboundLocalError ELSE Return(Job(fetched[1]))
         ELSE ScrapeAfterLoop

\* the number of fetches of a finished call, from its own max_polls and the
\* answers to its own requests alone
OwnFetches ==
    /\ Fetches <= Max0(args.max_polls)
    /\ NothingEndedTheLoop => Fetches = Max0(args.max_polls)
    /\ ~NothingEndedTheLoop =>
           \A i \in DOMAIN trace :
               (FailedRequest(trace[i])
                \/ (IsFetch(trace[i]) /\ StopsTheLoop(op, trace[i].status)))
               => i = Len(trace)

\* the poll counter counts the iterations this call has completed, nothing else
OwnCounter == pc \notin {"idle", "start"} => polls = Sleeps

\* a step of the second call on the client leaves the first call's frame alone
PeerLeavesFrame == (peer' # peer) => UNCHANGED frame

\* C16: the poll budget is per call. No step changes the client's api key,
\* base URL or version after construction; the poll counter of a blocking
\* call counts that call's own iterations and no step of another blocking
\* call on the same client changes it; and when a crawl or scrape call has
\* ended, its number of fetches and its outcome are what its own arguments
\* and the answers to its own requests determine, whatever calls were made
\* before it and whatever another blocking call does in between its steps.
C16_PollBudgetIsPerCall ==
    /\ [](BlockingCall =>
             /\ OwnCounter
             /\ pc = "done" => (outcome = OwnOutcome /\ OwnFetches))
    /\ [][client' = client]_vars
    /\ [][PeerLeavesFrame]_vars

\* C16 witness: after an earlier call on the client, a crawl with a budget
\* of 2 has used it up while a second call with a budget of 1 has used up
\* its own and ended
C16_Witness ==
    /\ calls >= 1
    /\ op = "crawl" /\ BudgetExit /\ args.max_polls = 2 /\ polls = 2
    /\ peer.pc = "done" /\ peer.max_polls = 1 /\ peer.polls = 1

\* C16 witness: a scrape ends on its first answer while the second call on
\* the client is in its second iteration
C16_WitnessScrape ==
    /\ op = "scrape" /\ pc = "done" /\ Fetches = 1 /\ polls = 0
    /\ outcome.kind = "return"
    /\ peer.pc = "fetch" /\ peer.polls = 1

====
